---- MODULE Spec2Model ----
(***************************************************************************)
(* Model of the AudioPlayer playback session (src/main.cpp, the version    *)
(* that starts at line 255): PlayerState, the per-frame control loop of    *)
(* main, the asynchronous directory scan and the miniaudio end callback.   *)
(*                                                                         *)
(* A track path is modelled by an identifier 1..NumTracks; 0 stands for    *)
(* the empty std::string.  C++ indices are kept 0-based, so the track at   *)
(* index i of track_list is track_list[i + 1].                             *)
(***************************************************************************)
EXTENDS Integers, Sequences, FiniteSets, TLC

\* Number of distinct audio files that can exist in ./music/.
NumTracks == 2

\* The two ends of the volume slider, 0.0f and 1.0f; the levels between them
\* are not distinguished.
VolumeMin == 0

VolumeMax == 1

Tracks == 1..NumTracks

\* The empty std::string (playing_song_before_async_load.clear()).
NoTrack == 0

Volumes == {VolumeMin, VolumeMax}

VARIABLES
    state,        \* PlayerState plus the engine-side facts its handlers change
    unloadable,   \* files ma_sound_init_from_file rejects (corrupt, unsupported):
                  \* none or one; every catalog order occurs, so which one is immaterial
    pc,           \* position of the control thread in main's loop
    last,         \* outcome of the most recent step (observation only)
    tick_log,     \* control-thread steps performed so far in the current frame
    req,          \* what was playing when the scan being reconciled was requested,
                  \* kept until the frame that applies it moves on (observation only)
    scanner       \* the run of ScanMusicDirectoryWorker followed step by step: the
                  \* directory it is given and what it returned (SpecScan only;
                  \* elsewhere a scan's outcome is drawn where get() consumes it)

vars == <<state, unloadable, pc, last, tick_log, req, scanner>>

-----------------------------------------------------------------------------
(* Data *)

\* A ma_sound that is not initialised.
NoSound == [track |-> NoTrack, started |-> FALSE, volume |-> 0, cursor |-> 0]

\* A default-constructed std::future: valid() is false.
NoFuture == [valid |-> FALSE, ready |-> FALSE]

\* Duplicate-free sequences over Tracks: what a directory enumeration can yield.
RECURSIVE SeqsNoDup(_)
SeqsNoDup(S) ==
    IF S = {} THEN {<<>>}
    ELSE {<<>>} \cup UNION {{<<x>> \o t : t \in SeqsNoDup(S \ {x})} : x \in S}

ScanResults == SeqsNoDup(Tracks)

\* What music_load_future.get() can yield: the worker's vector, or an exception
\* that escaped the worker.  Nothing reads the shared state before get(), so the
\* outcome is drawn where it is consumed.
NoOutcome == [result |-> <<>>, raised |-> FALSE]

ScanOutcomes ==
    {[result |-> r, raised |-> FALSE] : r \in ScanResults}
        \cup {[result |-> <<>>, raised |-> TRUE]}

size(list) == Len(list)

empty(list) == Len(list) = 0

\* state.current_track_index >= 0 && state.current_track_index < track_list.size()
IndexInRange(s, i) == i >= 0 /\ i < size(s.track_list)

\* std::find + std::distance: 0-based position of the first match, size() if none.
RECURSIVE FindFrom(_, _, _)
FindFrom(list, x, i) ==
    IF i >= Len(list) THEN Len(list)
    ELSE IF list[i + 1] = x THEN i
    ELSE FindFrom(list, x, i + 1)

Range(list) == {list[i] : i \in 1..Len(list)}

\* Variant: reports slot 0 for any track that is present.
find_FirstSlot(list, x) == IF x \in Range(list) THEN 0 ELSE Len(list)

find(list, x) == FindFrom(list, x, 0)

\* struct PlayerState after default member initialisation.
PlayerState ==
    [ sound_initialized |-> FALSE,
      sound |-> NoSound,
      track_list |-> <<>>,
      current_track_index |-> 0,
      is_playing |-> FALSE,
      volume |-> VolumeMax,
      music_load_future |-> NoFuture,
      is_loading_music |-> FALSE,
      was_playing_before_async_load |-> FALSE,
      playing_song_before_async_load |-> NoTrack,
      track_ended_flag |-> FALSE,
      \* engine-side bookkeeping
      engine_live |-> 0,      \* ma_sound objects initialised and not uninitialised
      async_tasks |-> 0,      \* std::async tasks launched whose result was not taken
      flag_stale |-> FALSE,   \* the pending end flag belongs to a released sound
      \* process-side bookkeeping
      engine_init |-> FALSE,  \* ma_engine_init succeeded and ma_engine_uninit was not called
      imgui_init |-> FALSE,   \* the ImGui context and its two backends are initialised
      orphans |-> 0,          \* sounds that were live when the engine was uninitialised
      torn_uninit |-> {} ]    \* subsystems shut down that were not initialised

-----------------------------------------------------------------------------
(* miniaudio calls *)

\* Stopping does not rewind: a sound that was running keeps its position
\* (cursor 1: somewhere past the start).
ma_sound_stop(s) ==
    IF s.sound.started
    THEN [s EXCEPT !.sound.started = FALSE, !.sound.cursor = 1]
    ELSE s

ma_sound_start(s) == [s EXCEPT !.sound.started = TRUE]

ma_sound_is_playing(s) == s.sound.started

ma_sound_set_volume(s, v) == [s EXCEPT !.sound.volume = v]

\* Releases the native resource; an end flag still pending now refers to a
\* sound that no longer exists.
ma_sound_uninit(s) ==
    [s EXCEPT !.sound = NoSound,
              !.engine_live = @ - 1,
              !.flag_stale = s.track_ended_flag]

\* MA_SUCCESS iff the engine accepts the file.
ma_sound_init_ok(path) == path \notin unloadable

ma_sound_init_from_file(s, path) ==
    [s EXCEPT !.sound = [track |-> path, started |-> FALSE, volume |-> VolumeMax,
                         cursor |-> 0],
              !.engine_live = @ + 1]

-----------------------------------------------------------------------------
(* Handlers *)

\* Variant: the callback also turns Playing off.
sound_end_callback_StopsPlaying(s) ==
    [s EXCEPT !.track_ended_flag = TRUE, !.is_playing = FALSE]

sound_end_callback(s) == [s EXCEPT !.track_ended_flag = TRUE]

StopCurrentSound(s) ==
    LET s1 == IF s.sound_initialized THEN ma_sound_stop(s) ELSE s
    IN  [s1 EXCEPT !.is_playing = FALSE]

\* Variant: marks the sound unbound without releasing the native resource.
UninitializeCurrentSound_Leak(s) == [s EXCEPT !.sound_initialized = FALSE]

UninitializeCurrentSound(s) ==
    IF s.sound_initialized
    THEN [ma_sound_uninit(s) EXCEPT !.sound_initialized = FALSE]
    ELSE s

\* Variant: the failure branch leaves is_playing as it was.
LoadFailed_KeepPlaying(s) == [s EXCEPT !.sound_initialized = FALSE]

\* Variant: the failure branch marks the sound bound.
LoadFailed_MarkBound(s) == [s EXCEPT !.sound_initialized = TRUE, !.is_playing = FALSE]

\* InitializeAndPlaySound, result != MA_SUCCESS.
LoadFailed(s) == [s EXCEPT !.sound_initialized = FALSE, !.is_playing = FALSE]

\* Variant: the new sound keeps the engine's default volume.
BindLoadedSound_DefaultVolume(s, track_index_to_play) ==
    [s EXCEPT !.sound_initialized = TRUE, !.current_track_index = track_index_to_play]

\* InitializeAndPlaySound, after MA_SUCCESS: mark the sound bound, select the
\* track, apply the session volume.
BindLoadedSound(s, track_index_to_play) ==
    LET s3 == [s EXCEPT !.sound_initialized = TRUE,
                        !.current_track_index = track_index_to_play]
    IN  ma_sound_set_volume(s3, s3.volume)

InitializeAndPlaySound(s, track_index_to_play, start_playing) ==
    LET s1 == UninitializeCurrentSound(s)
    IN  IF empty(s1.track_list) \/ ~IndexInRange(s1, track_index_to_play)
        THEN [s1 EXCEPT !.is_playing = FALSE]
        ELSE LET filepath == s1.track_list[track_index_to_play + 1]
             IN  IF ~ma_sound_init_ok(filepath)
                 THEN LoadFailed(s1)
                 ELSE LET s2 == ma_sound_init_from_file(s1, filepath)
                          s4 == BindLoadedSound(s2, track_index_to_play)
                      IN  IF start_playing
                          THEN [ma_sound_start(s4) EXCEPT !.is_playing = TRUE]
                          ELSE [s4 EXCEPT !.is_playing = FALSE]

\* Variant: the capture is made but the bound sound is neither stopped nor released.
CaptureAndRelease_KeepSound(s) ==
    [s EXCEPT !.was_playing_before_async_load = s.is_playing,
              !.playing_song_before_async_load =
                  IF ~empty(s.track_list) /\ IndexInRange(s, s.current_track_index)
                  THEN s.track_list[s.current_track_index + 1]
                  ELSE NoTrack,
              !.is_playing = FALSE]

\* Variant: the request also empties the list that is about to be replaced.
CaptureAndRelease_ClearList(s) ==
    [(IF s.sound_initialized
      THEN [ma_sound_uninit(ma_sound_stop(s)) EXCEPT !.sound_initialized = FALSE]
      ELSE s)
     EXCEPT !.was_playing_before_async_load = s.is_playing,
            !.playing_song_before_async_load =
                IF ~empty(s.track_list) /\ IndexInRange(s, s.current_track_index)
                THEN s.track_list[s.current_track_index + 1]
                ELSE NoTrack,
            !.is_playing = FALSE,
            !.track_list = <<>>]

\* TriggerLoadMusicFilesAsync, the !is_initial_load block: capture what is
\* playing, stop and release the sound.
CaptureAndRelease(s) ==
    LET a == [s EXCEPT
                !.was_playing_before_async_load = s.is_playing,
                !.playing_song_before_async_load =
                    IF ~empty(s.track_list) /\ IndexInRange(s, s.current_track_index)
                    THEN s.track_list[s.current_track_index + 1]
                    ELSE NoTrack]
        b == IF a.sound_initialized
             THEN [ma_sound_uninit(ma_sound_stop(a)) EXCEPT !.sound_initialized = FALSE]
             ELSE a
    IN  [b EXCEPT !.is_playing = FALSE]

\* state.music_load_future = std::async(std::launch::async, ScanMusicDirectoryWorker, ...)
LaunchScan(s) ==
    [s EXCEPT !.music_load_future = [valid |-> TRUE, ready |-> FALSE],
              !.async_tasks = @ + 1]

\* TriggerLoadMusicFilesAsync past its is_loading_music guard.
StartLoad(s, is_initial_load) ==
    LET s1 == [s EXCEPT !.is_loading_music = TRUE]
    IN  LaunchScan(IF is_initial_load THEN s1 ELSE CaptureAndRelease(s1))

\* Variant: no is_loading_music guard, a second scan is launched.
TriggerLoadMusicFilesAsync_NoGuard(s, is_initial_load) == StartLoad(s, is_initial_load)

\* Variant: the guard sits after the capture block, so a request made while
\* scanning launches nothing but captures and releases again.
TriggerLoadMusicFilesAsync_LateGuard(s, is_initial_load) ==
    IF s.is_loading_music
    THEN IF is_initial_load THEN s ELSE CaptureAndRelease(s)
    ELSE StartLoad(s, is_initial_load)

TriggerLoadMusicFilesAsync(s, is_initial_load) ==
    IF s.is_loading_music THEN s ELSE StartLoad(s, is_initial_load)

\* Variant: the future is taken without asking whether it is ready.
ScanReady_NoReadyCheck(s) == s.is_loading_music /\ s.music_load_future.valid

\* The poll finds the future ready and applies it.
ScanReady(s) ==
    s.is_loading_music /\ s.music_load_future.valid /\ s.music_load_future.ready

\* Variant: the index of the old catalog is kept.
ResetAfterScan_KeepIndex(s) == [s EXCEPT !.is_playing = FALSE]

\* ProcessAsyncMusicLoadCompletion: current_track_index = 0; is_playing = false.
ResetAfterScan(s) == [s EXCEPT !.current_track_index = 0, !.is_playing = FALSE]

\* Variant: the captured track is looked up whether or not it was playing.
Reconcile_WheneverCaptured(s) ==
    IF s.playing_song_before_async_load # NoTrack
    THEN LET new_index == find(s.track_list, s.playing_song_before_async_load)
         IN  IF new_index # size(s.track_list)
             THEN InitializeAndPlaySound(s, new_index, s.was_playing_before_async_load)
             ELSE s
    ELSE s

\* ProcessAsyncMusicLoadCompletion: the lookup of the previously playing song.
Reconcile(s) ==
    IF s.was_playing_before_async_load /\ s.playing_song_before_async_load # NoTrack
    THEN LET new_index == find(s.track_list, s.playing_song_before_async_load)
         IN  IF new_index # size(s.track_list)
             THEN InitializeAndPlaySound(s, new_index, TRUE)
             ELSE s
    ELSE s

\* Variant: only is_loading_music is cleared, the capture is left behind.
ClearRefreshState_KeepCapture(s) == [s EXCEPT !.is_loading_music = FALSE]

\* Variant: the capture is cleared but is_loading_music stays set.
ClearRefreshState_KeepLoading(s) ==
    [s EXCEPT !.was_playing_before_async_load = FALSE,
              !.playing_song_before_async_load = NoTrack]

\* ProcessAsyncMusicLoadCompletion, its last three assignments.
ClearRefreshState(s) ==
    [s EXCEPT !.was_playing_before_async_load = FALSE,
              !.playing_song_before_async_load = NoTrack,
              !.is_loading_music = FALSE]

ProcessAsyncMusicLoadCompletion(s, got) ==
    IF ~ScanReady(s) THEN s
    ELSE LET s1 == [s EXCEPT !.track_list = IF got.raised THEN <<>> ELSE got.result,
                             !.music_load_future = NoFuture,
                             !.async_tasks = @ - 1]
             s2 == ResetAfterScan(s1)
             s3 == Reconcile(s2)
         IN  ClearRefreshState(s3)

\* Variant: Play always releases the sound and loads the track again.
HandlePlayPause_AlwaysReload(s) ==
    IF empty(s.track_list) THEN s
    ELSE IF ~IndexInRange(s, s.current_track_index) THEN s
    ELSE IF s.is_playing
         THEN [(IF s.sound_initialized THEN ma_sound_stop(s) ELSE s) EXCEPT !.is_playing = FALSE]
         ELSE InitializeAndPlaySound(s, s.current_track_index, TRUE)

HandlePlayPause(s) ==
    IF empty(s.track_list) THEN s
    ELSE IF ~IndexInRange(s, s.current_track_index) THEN s
    ELSE IF s.is_playing
         THEN LET s1 == IF s.sound_initialized THEN ma_sound_stop(s) ELSE s
              IN  [s1 EXCEPT !.is_playing = FALSE]
         ELSE IF s.sound_initialized /\ ~ma_sound_is_playing(s)
              THEN [ma_sound_start(s) EXCEPT !.is_playing = TRUE]
              ELSE InitializeAndPlaySound(s, s.current_track_index, TRUE)

\* Variant: the next index is not wrapped at the end of the catalog.
HandleNextTrack_NoWrap(s) ==
    IF empty(s.track_list) THEN s
    ELSE InitializeAndPlaySound(s, s.current_track_index + 1, s.is_playing)

\* Variant: Next starts the new sound whatever the status was.
HandleNextTrack_AlwaysStart(s) ==
    IF empty(s.track_list) THEN s
    ELSE InitializeAndPlaySound(s, (s.current_track_index + 1) % size(s.track_list), TRUE)

HandleNextTrack(s) ==
    IF empty(s.track_list) THEN s
    ELSE LET next_track_index == (s.current_track_index + 1) % size(s.track_list)
             was_playing == s.is_playing
         IN  InitializeAndPlaySound(s, next_track_index, was_playing)

\* Variant: moving the slider also starts a bound sound.
HandleVolumeChange_Starts(s, new_volume) ==
    LET s1 == [s EXCEPT !.volume = new_volume]
    IN  IF s1.sound_initialized
        THEN [ma_sound_start(ma_sound_set_volume(s1, s1.volume)) EXCEPT !.is_playing = TRUE]
        ELSE s1

HandleVolumeChange(s, new_volume) ==
    LET s1 == [s EXCEPT !.volume = new_volume]
    IN  IF s1.sound_initialized THEN ma_sound_set_volume(s1, s1.volume) ELSE s1

\* exchange(false) returned true.
EndFlagTaken(s) == s.track_ended_flag

\* Variant: the flag is read with load() and stays set after the drain.
ProcessAudioEvents_KeepFlag(s) ==
    IF s.track_ended_flag /\ s.is_playing THEN HandleNextTrack(s) ELSE s

\* Variant: advances on every end flag, whatever is_playing says.
ProcessAudioEvents_AlwaysAdvance(s) ==
    IF EndFlagTaken(s)
    THEN HandleNextTrack([s EXCEPT !.track_ended_flag = FALSE, !.flag_stale = FALSE])
    ELSE s

ProcessAudioEvents(s) ==
    IF EndFlagTaken(s)
    THEN LET s1 == [s EXCEPT !.track_ended_flag = FALSE, !.flag_stale = FALSE]
         IN  IF s1.is_playing THEN HandleNextTrack(s1) ELSE s1
    ELSE s

\* The bounds check at the top of the track section of RenderUI.
ClampIndex(s) ==
    IF ~IndexInRange(s, s.current_track_index)
    THEN LET s1 == [s EXCEPT !.current_track_index = 0]
             s2 == IF s1.is_playing THEN StopCurrentSound(s1) ELSE s1
         IN  UninitializeCurrentSound(s2)
    ELSE s

\* The track section (Play/Pause, Next, Volume) is drawn this frame.
ControlsShown(s) ==
    ~empty(s.track_list) /\ IndexInRange(ClampIndex(s), ClampIndex(s).current_track_index)

\* One frame of RenderUI in which the widget `cmd` reports activation.
RenderUI(s, cmd, new_volume) ==
    LET s1 == IF cmd = "refresh" THEN TriggerLoadMusicFilesAsync(s, FALSE) ELSE s
    IN  IF empty(s1.track_list) THEN s1
        ELSE LET s2 == ClampIndex(s1)
             IN  IF ~IndexInRange(s2, s2.current_track_index) THEN s2
                 ELSE CASE cmd = "toggle" -> HandlePlayPause(s2)
                        [] cmd = "next"   -> HandleNextTrack(s2)
                        [] cmd = "volume" -> HandleVolumeChange(s2, new_volume)
                        [] OTHER          -> s2

-----------------------------------------------------------------------------
(* Start-up and teardown *)

\* InitializeImGui returning true: context created, both backends initialised.
InitializeImGui(s) == [s EXCEPT !.imgui_init = TRUE]

\* InitializeMiniaudio returning true.
InitializeMiniaudio(s) == [s EXCEPT !.engine_init = TRUE, !.sound_initialized = FALSE]

\* ma_engine_uninit(&state.engine): called as it is, whatever the engine's state.
ma_engine_uninit(s) ==
    [s EXCEPT !.engine_init = FALSE,
              !.orphans = s.engine_live,
              !.torn_uninit = IF s.engine_init THEN @ ELSE @ \cup {"engine"}]

\* ImGui_ImplOpenGL3_Shutdown(); ImGui_ImplGlfw_Shutdown(); ImGui::DestroyContext();
ImGui_Shutdown(s) ==
    [s EXCEPT !.imgui_init = FALSE,
              !.torn_uninit = IF s.imgui_init THEN @ ELSE @ \cup {"imgui"}]

\* Variant: the engine is uninitialised first, the sound afterwards.
Cleanup_EngineFirst(s) == ImGui_Shutdown(UninitializeCurrentSound(ma_engine_uninit(s)))

Cleanup(s) == ImGui_Shutdown(ma_engine_uninit(UninitializeCurrentSound(s)))

\* Which initialiser of main's start-up sequence returns false, if any.
StartUpFailures == {"none", "glfw", "glew", "imgui", "audio"}

\* main up to the loop's first statement: the four initialisers in order,
\* Cleanup and return -1 at the first that fails.
StartUpSequence(s, failure) ==
    IF failure \in {"glfw", "glew", "imgui"} THEN Cleanup(s)
    ELSE LET s1 == InitializeImGui(s)
         IN  IF failure = "audio" THEN Cleanup(s1) ELSE InitializeMiniaudio(s1)

-----------------------------------------------------------------------------
(* Specification *)

NoReq == [playing |-> FALSE, track |-> NoTrack, cmds |-> FALSE, dropped |-> FALSE]

\* No scanner run is followed: an existing, empty ./music/ and no result yet.
NoScanner ==
    [dir |-> [status |-> "present", entries |-> <<>>],
     done |-> FALSE, found_tracks |-> <<>>, raised |-> FALSE]

\* main after its four initialisers have returned true.
Init ==
    /\ state = StartUpSequence(PlayerState, "none")
    /\ unloadable \in {{}, {CHOOSE t \in Tracks : TRUE}}
    /\ pc = "boot"
    /\ last = "init"
    /\ tick_log = <<>>
    /\ req = NoReq
    /\ scanner = NoScanner

\* main: TriggerLoadMusicFilesAsync(playerState, true) before the loop.
Bootstrap ==
    /\ pc = "boot"
    /\ state' = TriggerLoadMusicFilesAsync(state, TRUE)
    /\ pc' = "poll"
    /\ last' = "boot"
    /\ UNCHANGED <<unloadable, scanner, tick_log, req>>

\* main loop: ProcessAsyncMusicLoadCompletion(playerState).
PollCompletion ==
    /\ pc = "poll"
    /\ \E got \in (IF ScanReady(state) THEN ScanOutcomes ELSE {NoOutcome}) :
          state' = ProcessAsyncMusicLoadCompletion(state, got)
    /\ pc' = "drain"
    /\ last' = IF ScanReady(state) THEN "poll_apply" ELSE "poll_noop"
    /\ tick_log' = <<"poll">>
    /\ UNCHANGED <<unloadable, scanner, req>>

\* main loop: ProcessAudioEvents(playerState).
DrainAudioEvents ==
    /\ pc = "drain"
    /\ state' = ProcessAudioEvents(state)
    /\ pc' = "ui"
    /\ last' = IF ~EndFlagTaken(state) THEN "drain_none"
               ELSE IF state.is_playing THEN "drain_advance" ELSE "drain_discard"
    /\ tick_log' = Append(tick_log, "drain")
    /\ req' = IF last = "poll_apply" THEN NoReq ELSE req
    /\ UNCHANGED <<unloadable, scanner, scanner>>

\* What the observer notes when a command is issued while a scan is running.
NoteCommand == IF state.is_loading_music THEN [req EXCEPT !.cmds = TRUE] ELSE req

\* main loop: RenderUI(playerState) with no widget activated.
UIIdle ==
    /\ pc = "ui"
    /\ state' = RenderUI(state, "none", state.volume)
    /\ pc' = "poll"
    /\ last' = "idle"
    /\ tick_log' = Append(tick_log, "ui")
    /\ UNCHANGED <<unloadable, scanner, req>>

\* RenderUI with "Refresh Music List" activated.
UIRefresh ==
    /\ pc = "ui"
    /\ state' = RenderUI(state, "refresh", state.volume)
    /\ pc' = "poll"
    /\ last' = IF state.is_loading_music THEN "refresh_drop" ELSE "refresh_accept"
    /\ req' = IF state.is_loading_music
              THEN [req EXCEPT !.cmds = TRUE, !.dropped = TRUE]
              ELSE [playing |-> state.is_playing,
                    track |-> IF IndexInRange(state, state.current_track_index)
                              THEN state.track_list[state.current_track_index + 1]
                              ELSE NoTrack,
                    cmds |-> FALSE,
                    dropped |-> FALSE]
    /\ tick_log' = Append(tick_log, "ui")
    /\ UNCHANGED <<unloadable, scanner, scanner>>

\* RenderUI with the Play/Pause button activated.
UIPlayPause ==
    /\ pc = "ui"
    /\ ControlsShown(state)
    /\ state' = RenderUI(state, "toggle", state.volume)
    /\ pc' = "poll"
    /\ last' = "toggle"
    /\ req' = NoteCommand
    /\ tick_log' = Append(tick_log, "ui")
    /\ UNCHANGED <<unloadable, scanner, scanner>>

\* RenderUI with the Next button activated.
UINext ==
    /\ pc = "ui"
    /\ ControlsShown(state)
    /\ state' = RenderUI(state, "next", state.volume)
    /\ pc' = "poll"
    /\ last' = "next"
    /\ req' = NoteCommand
    /\ tick_log' = Append(tick_log, "ui")
    /\ UNCHANGED <<unloadable, scanner, scanner>>

\* RenderUI with the volume slider moved.
UIVolume ==
    /\ pc = "ui"
    /\ ControlsShown(state)
    /\ \E v \in Volumes : state' = RenderUI(state, "volume", v)
    /\ pc' = "poll"
    /\ last' = "volume"
    /\ req' = NoteCommand
    /\ tick_log' = Append(tick_log, "ui")
    /\ UNCHANGED <<unloadable, scanner, scanner>>

\* What the scanner thread does to the session when ScanMusicDirectoryWorker
\* returns: its vector goes into the future's shared state, nothing else.
WorkerReturns(s) == [s EXCEPT !.music_load_future = [valid |-> TRUE, ready |-> TRUE]]

\* What the audio thread does when the started sound reaches its end: the
\* engine stops the sound and calls sound_end_callback; the flag now set
\* belongs to the bound sound.
EndOfSound(s) == [sound_end_callback(ma_sound_stop(s)) EXCEPT !.flag_stale = FALSE]

\* The std::async task running ScanMusicDirectoryWorker ends: the future is ready.
ScanWorkerFinish ==
    /\ state.music_load_future.valid
    /\ ~state.music_load_future.ready
    /\ state' = WorkerReturns(state)
    /\ UNCHANGED <<unloadable, scanner, pc, last, tick_log, req>>

\* The audio thread reaches the end of the started sound: miniaudio stops the
\* sound (ma_sound_is_playing becomes false) and invokes sound_end_callback.
\* It fires only for the sound that is bound: ma_sound_uninit detaches the
\* sound from the audio thread before it returns.
SoundReachesEnd ==
    /\ state.sound_initialized
    /\ state.sound.started
    /\ state' = EndOfSound(state)
    /\ UNCHANGED <<unloadable, scanner, pc, last, tick_log, req>>

Next ==
    \/ Bootstrap
    \/ PollCompletion
    \/ DrainAudioEvents
    \/ UIIdle
    \/ UIRefresh
    \/ UIPlayPause
    \/ UINext
    \/ UIVolume
    \/ ScanWorkerFinish
    \/ SoundReachesEnd

Spec == Init /\ [][Next]_vars

-----------------------------------------------------------------------------
(* Steps of the control thread, recognised by the loop position alone *)

PollStep == pc = "poll" /\ pc' = "drain"

DrainStep == pc = "drain" /\ pc' = "ui"

UIStep == pc = "ui" /\ pc' = "poll"

\* The track at CurrentIndex, NoTrack when the index addresses nothing.
CurrentTrack(s) ==
    IF IndexInRange(s, s.current_track_index)
    THEN s.track_list[s.current_track_index + 1]
    ELSE NoTrack

\* An Advance: the Next button, or the drain of an end flag while playing.
AdvanceStep ==
    \/ UIStep /\ last' = "next"
    \/ DrainStep /\ state.track_ended_flag /\ state.is_playing

IsPrefix(a, b) == Len(a) <= Len(b) /\ a = SubSeq(b, 1, Len(a))

-----------------------------------------------------------------------------
(* Claims *)

\* C1: for every sequence of commands, polls and end-of-track callbacks at
\* most one native sound resource is live; a load releases the bound sound
\* before it acquires the new one.
C1_AtMostOneLiveSound == state.engine_live <= 1

\* An automatic Advance has replaced the sound that was playing by a new one.
C1_Witness ==
    last = "drain_advance" /\ state.sound_initialized /\ state.engine_live = 1

\* C2: after every transition is_playing is never true without a bound sound,
\* and sound_initialized tells exactly whether a native sound exists; so
\* Stopped (not playing, nothing bound) coincides with no ActiveSound, and a
\* bound sound means Playing or Paused.
C2_StoppedIffNoSound ==
    /\ state.is_playing => state.sound_initialized
    /\ state.sound_initialized <=> state.engine_live = 1
    /\ state.sound_initialized <=> state.sound.track # NoTrack

\* A load was rejected during Next and the session fell back to Stopped.
C2_Witness ==
    /\ last = "next"
    /\ ~state.is_playing
    /\ ~state.sound_initialized
    /\ unloadable # {}
    /\ ~empty(state.track_list)

\* C3 (as claimed): after any Advance on a non-empty catalog CurrentIndex is
\* (previous CurrentIndex + 1) mod catalog length.
C3_AdvanceIsSuccessorIndex ==
    [][(AdvanceStep /\ ~empty(state.track_list))
         => state'.current_track_index
              = (state.current_track_index + 1) % size(state.track_list)]_vars

\* C4: a refresh requested while track t was playing, with no command during
\* the scan, t in the new catalog and t loadable, ends with CurrentIndex at
\* t's position in the new catalog, Playing, with the sound bound to t.
C4_ReconcileByIdentity ==
    (/\ last = "poll_apply"
     /\ req.playing
     /\ req.track # NoTrack
     /\ ~req.cmds
     /\ req.track \in Range(state.track_list)
     /\ req.track \notin unloadable)
    => /\ CurrentTrack(state) = req.track
       /\ state.is_playing
       /\ state.sound_initialized
       /\ state.sound.track = req.track

\* The playing track was found at a position other than 0 and resumed.
C4_Witness ==
    /\ last = "poll_apply"
    /\ req.playing
    /\ ~req.cmds
    /\ state.current_track_index > 0
    /\ state.is_playing
    /\ state.sound.track = req.track

\* C5: a refresh requested while track t was playing, with no command during
\* the scan and t absent from the new catalog, ends Stopped (not playing, no
\* sound bound) with CurrentIndex 0.
C5_ReconcileRemoved ==
    (/\ last = "poll_apply"
     /\ req.playing
     /\ req.track # NoTrack
     /\ ~req.cmds
     /\ req.track \notin Range(state.track_list))
    => /\ ~state.is_playing
       /\ ~state.sound_initialized
       /\ state.current_track_index = 0

\* The playing track disappeared from a catalog that still holds a track.
C5_Witness ==
    /\ last = "poll_apply"
    /\ req.playing
    /\ req.track # NoTrack
    /\ ~req.cmds
    /\ req.track \notin Range(state.track_list)
    /\ size(state.track_list) >= 1

\* C6: draining the end flag while is_playing is false (Paused or Stopped)
\* performs no Advance: only the flag is cleared.
C6_DrainWhileNotPlaying ==
    [][(DrainStep /\ state.track_ended_flag /\ ~state.is_playing)
         => state' = [state EXCEPT !.track_ended_flag = FALSE,
                                   !.flag_stale = FALSE]]_vars

\* An end flag was discarded while a paused sound stayed bound.
C6_Witness ==
    /\ last = "drain_discard"
    /\ state.sound_initialized
    /\ ~state.is_playing
    /\ ~state.track_ended_flag

\* C7 (as claimed): the drain never advances on an end signal whose sound has
\* been released since it was raised.
C7_StaleSignalNeverAdvances ==
    [][(DrainStep /\ state.track_ended_flag /\ state.flag_stale)
         => /\ state'.current_track_index = state.current_track_index
            /\ state'.sound = state.sound]_vars

\* C8 (as claimed): in every frame the end flag is drained, then refresh
\* completion is polled, then the user command is applied.
C8_DrainBeforePoll == IsPrefix(tick_log, <<"drain", "poll", "ui">>)

\* C9: a requestRefresh issued while a scan is in flight changes nothing:
\* catalog, index, is_playing, sound, captured values and the running scan.
C9_SecondRefreshIsNoOp ==
    [][(UIStep /\ last' \in {"refresh_drop", "refresh_accept"}
               /\ state.is_loading_music)
         => state' = state]_vars

\* A request was dropped while a sound bound during the scan stays bound.
C9_Witness ==
    /\ last = "refresh_drop"
    /\ state.is_loading_music
    /\ state.sound_initialized
    /\ state.is_playing

\* C10: at most one scan is in flight; applying it leaves no scan behind even
\* when requests were dropped meanwhile, and a scan starts only at bootstrap
\* or in an accepted requestRefresh.
C10_OneScanNotQueued ==
    /\ [](/\ state.async_tasks <= 1
          /\ state.is_loading_music <=> state.async_tasks = 1
          /\ last = "poll_apply" =>
                 (state.async_tasks = 0 /\ ~state.music_load_future.valid))
    /\ [][state'.async_tasks > state.async_tasks
            => (pc = "boot" \/ (UIStep /\ last' = "refresh_accept"))]_vars

\* A scan has been applied during which a request was dropped.
C10_Witness ==
    /\ last = "poll_apply"
    /\ req.dropped
    /\ ~state.is_loading_music
    /\ state.async_tasks = 0

\* The track an Advance tries to load.
NextTrack(s) == s.track_list[((s.current_track_index + 1) % size(s.track_list)) + 1]

\* The step is a toggle that has to load the track at CurrentIndex.
ToggleLoads ==
    /\ UIStep
    /\ last' = "toggle"
    /\ ~state.is_playing
    /\ ~(state.sound_initialized /\ ~state.sound.started)

\* The step applies a scan and reconciliation finds the track that was playing.
ReconcileLoads ==
    /\ PollStep
    /\ last' = "poll_apply"
    /\ req.playing
    /\ req.track \in Range(state'.track_list)

\* C11: a load the engine rejects, during togglePlayPause, Advance or refresh
\* reconciliation, leaves is_playing false and no sound bound; the handlers
\* leave the catalog as it is and reconciliation keeps the rejected track in
\* the catalog it installed.
C11_LoadFailureFallsBackToStopped ==
    [][(\/ ToggleLoads /\ CurrentTrack(state) \in unloadable
        \/ AdvanceStep /\ ~empty(state.track_list) /\ NextTrack(state) \in unloadable
        \/ ReconcileLoads /\ req.track \in unloadable)
         => /\ ~state'.is_playing
            /\ ~state'.sound_initialized
            /\ state'.engine_live = 0
            /\ (~PollStep => state'.track_list = state.track_list)
            /\ (PollStep => req.track \in Range(state'.track_list))]_vars

\* Play was pressed on a file the engine rejects: nothing is bound.
C11_Witness ==
    /\ last = "toggle"
    /\ CurrentTrack(state) \in unloadable
    /\ ~state.is_playing
    /\ ~state.sound_initialized

-----------------------------------------------------------------------------
(* A listener who keeps pressing Next: the control loop keeps running, the
   scan ends, and the Next button is pressed again and again.  No refresh is
   requested after the initial load, so the catalog stays as first scanned. *)

NextSkip ==
    \/ Bootstrap
    \/ PollCompletion
    \/ DrainAudioEvents
    \/ UIIdle
    \/ UIPlayPause
    \/ UINext
    \/ ScanWorkerFinish
    \/ SoundReachesEnd

SpecSkip ==
    /\ Init
    /\ [][NextSkip]_vars
    /\ WF_vars(Bootstrap)
    /\ WF_vars(PollCompletion)
    /\ WF_vars(DrainAudioEvents)
    /\ WF_vars(UIIdle \/ UIPlayPause \/ UINext)
    /\ WF_vars(ScanWorkerFinish)
    /\ SF_vars(UINext)

\* The track an Advance has just stepped over.
PrevTrack(s) ==
    s.track_list[((s.current_track_index + size(s.track_list) - 1) % size(s.track_list)) + 1]

\* C12: when the track after CurrentIndex is one the engine rejects and the
\* catalog holds loadable tracks beyond it, pressing Next again and again
\* eventually brings CurrentIndex past the rejected track with the track
\* selected there bound.
C12_NextSkipsFailingTrack ==
    (/\ ~state.is_loading_music
     /\ size(state.track_list) >= 2
     /\ NextTrack(state) \in unloadable)
      ~> (/\ size(state.track_list) >= 2
          /\ PrevTrack(state) \in unloadable
          /\ state.sound_initialized
          /\ state.sound.track = CurrentTrack(state))

-----------------------------------------------------------------------------

\* The step is an Advance on a non-empty catalog whose load the engine accepts.
AdvanceLoads ==
    /\ AdvanceStep
    /\ ~empty(state.track_list)
    /\ NextTrack(state) \notin unloadable

\* C13 as stated: an Advance, manual or automatic, on a non-empty catalog
\* whose load succeeds ends Playing with the next track's sound started,
\* whatever the status was before.
C13_AdvanceAlwaysPlays ==
    [][AdvanceLoads
         => /\ state'.is_playing
            /\ state'.sound_initialized
            /\ state'.sound.started
            /\ state'.sound.track = NextTrack(state)]_vars

\* C13 amended: an Advance on a non-empty catalog whose load succeeds binds
\* the next track's sound and selects it; the sound is started and the
\* session Playing exactly when the session was Playing before the Advance.
C13_AdvancePlaysIffWasPlaying ==
    [][AdvanceLoads
         => /\ state'.sound_initialized
            /\ state'.sound.track = NextTrack(state)
            /\ CurrentTrack(state') = NextTrack(state)
            /\ state'.is_playing = state.is_playing
            /\ state'.sound.started = state.is_playing]_vars

\* Next was pressed while nothing played: the next track is bound, silent.
C13_Witness ==
    /\ last = "next"
    /\ state.sound_initialized
    /\ state.sound.track = CurrentTrack(state)
    /\ ~state.sound.started
    /\ ~state.is_playing

-----------------------------------------------------------------------------

\* C14: right after a completed scan with an empty result is applied, from
\* any prior state and whatever commands were issued during the scan, the
\* session is Stopped: is_playing false, no sound bound, CurrentIndex 0.
C14_EmptyResultStops ==
    (last = "poll_apply" /\ empty(state.track_list))
      => /\ ~state.is_playing
         /\ ~state.sound_initialized
         /\ state.current_track_index = 0

-----------------------------------------------------------------------------
(* The command interface driven directly: a presentation driver other than
   RenderUI may call HandlePlayPause and HandleNextTrack in a frame in which
   RenderUI draws no track controls (empty catalog). *)

\* HandlePlayPause called while the track controls are not drawn.
ApiPlayPause ==
    /\ pc = "ui"
    /\ ~ControlsShown(state)
    /\ state' = HandlePlayPause(state)
    /\ pc' = "poll"
    /\ last' = "api_toggle"
    /\ req' = NoteCommand
    /\ tick_log' = Append(tick_log, "ui")
    /\ UNCHANGED <<unloadable, scanner, scanner>>

\* HandleNextTrack called while the track controls are not drawn.
ApiNext ==
    /\ pc = "ui"
    /\ ~ControlsShown(state)
    /\ state' = HandleNextTrack(state)
    /\ pc' = "poll"
    /\ last' = "api_next"
    /\ req' = NoteCommand
    /\ tick_log' = Append(tick_log, "ui")
    /\ UNCHANGED <<unloadable, scanner, scanner>>

NextApi ==
    \/ Next
    \/ ApiPlayPause
    \/ ApiNext

SpecApi == Init /\ [][NextApi]_vars

\* C15: with an empty catalog, togglePlayPause() and next() change neither the
\* catalog, CurrentIndex, is_playing nor the sound binding, and the status
\* after them is Stopped (is_playing false, no sound bound).
C15_EmptyCatalogCommandsAreNoOps ==
    [][(UIStep /\ last' \in {"api_toggle", "api_next"} /\ empty(state.track_list))
         => /\ state'.track_list = state.track_list
            /\ state'.current_track_index = state.current_track_index
            /\ state'.is_playing = state.is_playing
            /\ state'.sound_initialized = state.sound_initialized
            /\ state'.sound = state.sound
            /\ ~state'.is_playing
            /\ ~state'.sound_initialized]_vars

-----------------------------------------------------------------------------

\* C16: when a refresh completes and the track captured at the request is in
\* the new catalog, CurrentIndex is set to that track's position whether or
\* not playback was active at the request; playback is resumed only if it
\* was active, otherwise the session stays Stopped on that index.
C16_CapturedTrackIsReselected ==
    (/\ last = "poll_apply"
     /\ req.track # NoTrack
     /\ req.track \in Range(state.track_list))
      => /\ CurrentTrack(state) = req.track
         /\ (state.is_playing => req.playing)

\* C16 amended: applying a scan resets CurrentIndex to 0 and is_playing to
\* false; the captured track is looked up only if playback was active at the
\* request, and if its file loads it is bound, started and selected at its
\* position in the new catalog.  Otherwise CurrentIndex stays 0 and the
\* session is not playing, wherever the captured track now is.
C16_ReselectedOnlyIfWasPlaying ==
    [][(/\ PollStep
        /\ last' = "poll_apply"
        /\ req.track # NoTrack
        /\ req.track \in Range(state'.track_list))
         => IF req.playing /\ req.track \notin unloadable
            THEN /\ CurrentTrack(state') = req.track
                 /\ state'.is_playing
                 /\ state'.sound_initialized
                 /\ state'.sound.track = req.track
                 /\ state'.sound.started
            ELSE /\ state'.current_track_index = 0
                 /\ ~state'.is_playing]_vars

\* A refresh requested while nothing played completes with the selected track
\* moved away from index 0: the selection is back on index 0, another track.
C16_Witness ==
    /\ last = "poll_apply"
    /\ req.track # NoTrack
    /\ ~req.playing
    /\ req.track \in Range(state.track_list)
    /\ CurrentTrack(state) # req.track
    /\ state.current_track_index = 0
    /\ ~state.is_playing

-----------------------------------------------------------------------------

\* C17: the session volume changes only when the volume is set, so a volume
\* set while no sound is bound is kept through every other operation, and a
\* step that binds a sound where none was bound gives the new sound exactly
\* the session volume held before that step.
C17_VolumeRetainedAndApplied ==
    [][/\ (state'.volume # state.volume => UIStep /\ last' = "volume")
       /\ (~state.sound_initialized /\ state'.sound_initialized
             => /\ state'.sound.volume = state.volume
                /\ state'.volume = state.volume)]_vars

\* Next has loaded a track after the volume was lowered: the new sound
\* carries the lowered session volume, not the engine's default.
C17_Witness ==
    /\ last = "next"
    /\ state.sound_initialized
    /\ ~state.is_playing
    /\ state.volume = VolumeMin
    /\ state.sound.volume = VolumeMin

-----------------------------------------------------------------------------

\* C18: whenever the catalog is non-empty, CurrentIndex addresses one of its
\* tracks (0 <= CurrentIndex < length), in every reachable state, the state
\* right after a catalog replacement included.
C18_IndexWithinCatalog ==
    ~empty(state.track_list) => IndexInRange(state, state.current_track_index)

\* A refresh has replaced the catalog by a single track other than the one
\* that was selected: the index addresses the new catalog's only track.
C18_Witness ==
    /\ last = "poll_apply"
    /\ size(state.track_list) = 1
    /\ req.track # NoTrack
    /\ req.track \notin Range(state.track_list)
    /\ state.current_track_index = 0

-----------------------------------------------------------------------------
(* Uninterrupted playback: the listener starts playback and then leaves the
   player alone; the control loop keeps running, the scan ends and every
   started sound reaches its end.  InitLoop is the start in which every file
   loads. *)

InitLoop ==
    /\ Init
    /\ unloadable = {}

\* The one command of the run: Play pressed while nothing plays.
UIStart ==
    /\ ~state.is_playing
    /\ UIPlayPause

NextLoop ==
    \/ Bootstrap
    \/ PollCompletion
    \/ DrainAudioEvents
    \/ UIIdle
    \/ UIStart
    \/ ScanWorkerFinish
    \/ SoundReachesEnd

SpecLoop ==
    /\ Init
    /\ [][NextLoop]_vars
    /\ WF_vars(Bootstrap)
    /\ WF_vars(PollCompletion)
    /\ WF_vars(DrainAudioEvents)
    /\ WF_vars(UIIdle \/ UIStart)
    /\ WF_vars(ScanWorkerFinish)
    /\ WF_vars(SoundReachesEnd)

\* C19: during uninterrupted playback of a non-empty catalog whose files all
\* load, the session never leaves Playing, the end of the last track starts
\* the first track again, and every track of the catalog is played again and
\* again.
C19_PlaylistLoopsForever ==
    /\ [][(unloadable = {} /\ state.is_playing) => state'.is_playing]_vars
    /\ [][(unloadable = {} /\ DrainStep /\ last' = "drain_advance"
             /\ state.current_track_index = size(state.track_list) - 1)
            => /\ state'.current_track_index = 0
               /\ state'.sound.track = state'.track_list[1]
               /\ state'.sound.started]_vars
    /\ \A t \in Tracks :
          (unloadable = {} /\ state.is_playing /\ t \in Range(state.track_list))
            ~> (state.is_playing /\ state.sound.track = t /\ state.sound.started)

\* The last of several tracks has ended and the first one plays again.
C19_Witness ==
    /\ unloadable = {}
    /\ last = "drain_advance"
    /\ size(state.track_list) >= 2
    /\ state.current_track_index = 0
    /\ state.is_playing
    /\ state.sound.started
    /\ state.sound.track = state.track_list[1]

-----------------------------------------------------------------------------

\* C20: a togglePlayPause() that brings the session from not playing to
\* Playing leaves the sound that produces output bound to the track at
\* CurrentIndex of the current catalog: a bound sound is resumed in place
\* only when it is that track's, otherwise it is released and the track at
\* CurrentIndex is loaded.
C20_ToggleResumesOnlyCurrentTrack ==
    [][(UIStep /\ last' = "toggle" /\ ~state.is_playing /\ state'.is_playing)
         => /\ state'.sound_initialized
            /\ state'.sound.started
            /\ state'.sound.track = CurrentTrack(state')]_vars

-----------------------------------------------------------------------------

\* The frame in which Play/Pause is pressed, applied to a state s.
Toggled(s) == RenderUI(s, "toggle", s.volume)

\* C21: from any state in which the session is Playing and the controls are
\* drawn, Pause keeps the sound bound, and Pause followed by Play with nothing
\* in between is Playing again on the same CurrentIndex with the very sound
\* that was bound (its position kept, nothing released, nothing loaded).
C21_PausePlayRoundTrip ==
    (pc = "ui" /\ state.is_playing /\ ControlsShown(state))
      => /\ Toggled(state).sound_initialized
         /\ ~Toggled(state).is_playing
         /\ Toggled(state).sound = [state.sound EXCEPT !.started = FALSE, !.cursor = 1]
         /\ Toggled(state).engine_live = state.engine_live
         /\ Toggled(Toggled(state)) =
               [state EXCEPT !.sound = [state.sound EXCEPT !.started = TRUE, !.cursor = 1]]

\* Play was pressed on a paused sound: it runs again from where it stopped.
C21_Witness ==
    /\ last = "toggle"
    /\ state.is_playing
    /\ state.sound_initialized
    /\ state.sound.started
    /\ state.sound.cursor = 1
    /\ state.sound.track = CurrentTrack(state)

-----------------------------------------------------------------------------

\* The frame in which "Refresh Music List" is pressed, applied to a state s.
Refreshed(s) == RenderUI(s, "refresh", s.volume)

\* C22 as stated: from an accepted requestRefresh until its scan is applied,
\* CurrentIndex stays where it was at the request (the track selected is the
\* one captured) and the catalog is the one of the request.
C22_IndexFrozenWhileScanning ==
    (state.is_loading_music /\ req.track # NoTrack)
      => /\ req.track \in Range(state.track_list)
         /\ CurrentTrack(state) = req.track

\* C22 amended: an accepted requestRefresh (no scan in flight) captures
\* whether the session was Playing and the track at CurrentIndex, and leaves
\* no sound bound, is_playing false, is_loading true and a scan launched; the
\* request itself changes neither the catalog nor CurrentIndex.
C22_AcceptedRefreshCapturesAndReleases ==
    (pc = "ui" /\ ~state.is_loading_music)
      => /\ Refreshed(state).was_playing_before_async_load = state.is_playing
         /\ Refreshed(state).playing_song_before_async_load = CurrentTrack(state)
         /\ ~Refreshed(state).sound_initialized
         /\ Refreshed(state).sound = NoSound
         /\ Refreshed(state).engine_live = 0
         /\ ~Refreshed(state).is_playing
         /\ Refreshed(state).is_loading_music
         /\ Refreshed(state).music_load_future.valid
         /\ Refreshed(state).track_list = state.track_list
         /\ Refreshed(state).current_track_index = state.current_track_index

\* A refresh was accepted while a track played: the capture holds that track
\* and the playing flag, the sound is gone, the scan is running.
C22_Witness ==
    /\ last = "refresh_accept"
    /\ req.playing
    /\ state.was_playing_before_async_load
    /\ state.playing_song_before_async_load = req.track
    /\ CurrentTrack(state) = req.track
    /\ ~state.sound_initialized
    /\ ~state.is_playing
    /\ state.is_loading_music

-----------------------------------------------------------------------------

\* C23: right after a finished scan is applied, whatever its outcome, no
\* refresh is in progress; and whenever no refresh is in progress the captured
\* track is empty, the captured was-playing flag is false and no future is
\* held: the capture exists only while a scan is in flight.
C23_RefreshStateIdleAfterApply ==
    /\ (last = "poll_apply" => ~state.is_loading_music)
    /\ (~state.is_loading_music
          => /\ state.playing_song_before_async_load = NoTrack
             /\ ~state.was_playing_before_async_load
             /\ ~state.music_load_future.valid)

\* A refresh requested while a track played was applied and the track is
\* gone from the new catalog: the capture has been dropped all the same.
C23_Witness ==
    /\ last = "poll_apply"
    /\ req.playing
    /\ req.track # NoTrack
    /\ req.track \notin Range(state.track_list)
    /\ ~state.is_loading_music
    /\ state.playing_song_before_async_load = NoTrack
    /\ ~state.was_playing_before_async_load

-----------------------------------------------------------------------------

\* C24: while no scan is in flight, or the scan in flight has not finished,
\* the poll changes nothing (catalog, CurrentIndex, is_playing, sound
\* binding, is_loading and the capture are as before); the poll is a step
\* the control thread takes without waiting.
C24_PollBeforeFinishIsNoOp ==
    (/\ pc = "poll"
     /\ ~(/\ state.is_loading_music
          /\ state.music_load_future.valid
          /\ state.music_load_future.ready))
      => ProcessAsyncMusicLoadCompletion(state, NoOutcome) = state

\* The loop has polled a scan that is still running and moved on.
C24_Witness ==
    /\ last = "poll_noop"
    /\ pc = "drain"
    /\ state.is_loading_music
    /\ state.music_load_future.valid
    /\ ~state.music_load_future.ready

-----------------------------------------------------------------------------
(* Fair ticking: the control loop keeps taking its three steps and a scan
   that was launched ends.  The listener only asks for refreshes. *)

NextTick ==
    \/ Bootstrap
    \/ PollCompletion
    \/ DrainAudioEvents
    \/ UIIdle
    \/ UIRefresh
    \/ ScanWorkerFinish

SpecTick ==
    /\ InitLoop
    /\ [][NextTick]_vars
    /\ WF_vars(Bootstrap)
    /\ WF_vars(PollCompletion)
    /\ WF_vars(DrainAudioEvents)
    /\ WF_vars(UIIdle \/ UIRefresh)
    /\ WF_vars(ScanWorkerFinish)

\* The scan in flight has finished and its result has not been taken.
ScanFinished ==
    state.is_loading_music /\ state.music_load_future.valid /\ state.music_load_future.ready

\* C25: every scan that finishes is applied exactly once.  The first poll
\* after it finishes takes the result and clears is_loading; a result that
\* was taken cannot be taken again (at most one result is outstanding, and
\* exactly when a future is held); and under fair ticking a finished scan is
\* always followed by its application.
C25_FinishedScanAppliedOnce ==
    /\ [][(PollStep /\ ScanFinished)
            => /\ last' = "poll_apply"
               /\ ~state'.is_loading_music
               /\ ~state'.music_load_future.valid
               /\ state'.async_tasks = state.async_tasks - 1]_vars
    /\ [][(state'.async_tasks < state.async_tasks) => (PollStep /\ ScanFinished)]_vars
    /\ [](/\ state.async_tasks \in {0, 1}
          /\ (state.async_tasks = 1) = state.music_load_future.valid
          /\ state.music_load_future.valid => state.is_loading_music)
    /\ (ScanFinished ~> (last = "poll_apply" /\ ~state.is_loading_music))

\* A second scan, requested by the listener, has been applied.
C25_Witness ==
    /\ last = "poll_apply"
    /\ req.track # NoTrack
    /\ ~state.is_loading_music
    /\ state.async_tasks = 0
    /\ ~empty(state.track_list)

-----------------------------------------------------------------------------

\* The end flag is set and the session is Playing.
EndPendingWhilePlaying(s) == s.track_ended_flag /\ s.is_playing

\* A frame in which the listener activates a widget.
CommandStep == UIStep /\ last' # "idle"

\* C26: once the end flag is set while the session is Playing, every step
\* other than a user command keeps that situation until the drain, and the
\* drain then clears the flag and performs one Advance.
C26_PendingEndIsAdvanced ==
    [][(EndPendingWhilePlaying(state) /\ ~CommandStep)
         => IF DrainStep
            THEN /\ ~state'.track_ended_flag
                 /\ state' = HandleNextTrack([state EXCEPT !.track_ended_flag = FALSE,
                                                           !.flag_stale = FALSE])
            ELSE EndPendingWhilePlaying(state')]_vars

-----------------------------------------------------------------------------

\* What get() can hand to the poll in the current state: nothing is taken
\* unless the scan in flight has finished.
PollOutcomes == IF ScanFinished THEN ScanOutcomes ELSE {NoOutcome}

\* What the widgets of one frame can report.
Commands == {"none", "refresh", "toggle", "next", "volume"}

\* CurrentIndex after at most one Advance from s.
AtMostOneAhead(s) ==
    {s.current_track_index}
        \cup (IF empty(s.track_list) THEN {}
              ELSE {(s.current_track_index + 1) % size(s.track_list)})

\* C27: the end flag holds at most one pending event.  A callback on a flag
\* that is already set leaves it set (two callbacks count as one); the drain
\* always leaves the flag clear and moves CurrentIndex by at most one
\* Advance; and no other step of the control thread (poll, any command)
\* changes the flag, so an event raised outside a drain waits for the next
\* drain: it is not lost and not consumed twice.
C27_AtMostOnePendingEnd ==
    /\ sound_end_callback(state).track_ended_flag
    /\ sound_end_callback(sound_end_callback(state)) = sound_end_callback(state)
    /\ pc = "drain"
         => /\ ~ProcessAudioEvents(state).track_ended_flag
            /\ ProcessAudioEvents(state).current_track_index \in AtMostOneAhead(state)
            /\ ProcessAudioEvents(ProcessAudioEvents(state)) = ProcessAudioEvents(state)
    /\ pc = "poll"
         => \A got \in PollOutcomes :
               ProcessAsyncMusicLoadCompletion(state, got).track_ended_flag
                   = state.track_ended_flag
    /\ pc = "ui"
         => \A cmd \in Commands, v \in Volumes :
               RenderUI(state, cmd, v).track_ended_flag = state.track_ended_flag

\* The drain has consumed an end event and started the next track, and that
\* track has already ended: its event waits, flag set, for the following drain.
C27_Witness ==
    /\ pc = "ui"
    /\ last = "drain_advance"
    /\ state.is_playing
    /\ state.track_ended_flag
    /\ ~state.flag_stale

-----------------------------------------------------------------------------

\* The session fields the control thread owns.
SessionFields(s) ==
    [track_list |-> s.track_list,
     current_track_index |-> s.current_track_index,
     is_playing |-> s.is_playing,
     sound_initialized |-> s.sound_initialized,
     sound_track |-> s.sound.track,
     volume |-> s.volume,
     sound_volume |-> s.sound.volume,
     is_loading_music |-> s.is_loading_music,
     was_playing_before_async_load |-> s.was_playing_before_async_load,
     playing_song_before_async_load |-> s.playing_song_before_async_load]

\* C28: off the control thread only the end flag is written.  The callback
\* changes track_ended_flag and nothing else; the end of a sound on the audio
\* thread and the return of the scanner leave every session field (catalog,
\* CurrentIndex, is_playing, sound binding, volume, is_loading, capture) as
\* it was, and the scanner leaves the flag and the sound too: what it found
\* stays in the future until the control thread takes it.
C28_OnlyFlagWrittenOffThread ==
    /\ sound_end_callback(state) = [state EXCEPT !.track_ended_flag = TRUE]
    /\ SessionFields(EndOfSound(state)) = SessionFields(state)
    /\ SessionFields(WorkerReturns(state)) = SessionFields(state)
    /\ WorkerReturns(state).track_ended_flag = state.track_ended_flag
    /\ WorkerReturns(state).sound = state.sound

\* The scanner has returned while a track plays and the poll has not run yet:
\* the session still shows the old catalog and the playing track.
C28_Witness ==
    /\ state.music_load_future.valid
    /\ state.music_load_future.ready
    /\ state.is_loading_music
    /\ state.is_playing
    /\ state.sound.started
    /\ ~empty(state.track_list)

-----------------------------------------------------------------------------

\* C29: only the poll that applies a finished scan replaces the catalog.
\* Every command frame (Play/Pause, Next, volume, Refresh, none), the drain
\* of the end flag, a poll that finds no finished scan, the end of a sound
\* and the return of the scanner leave the catalog exactly as it was, so a
\* command issued during a scan works on the old catalog.
C29_CatalogReplacedOnlyByApply ==
    /\ pc = "ui"
         => \A cmd \in Commands, v \in Volumes :
               RenderUI(state, cmd, v).track_list = state.track_list
    /\ pc = "drain" => ProcessAudioEvents(state).track_list = state.track_list
    /\ (pc = "poll" /\ ~ScanFinished)
         => ProcessAsyncMusicLoadCompletion(state, NoOutcome).track_list = state.track_list
    /\ EndOfSound(state).track_list = state.track_list
    /\ WorkerReturns(state).track_list = state.track_list
    /\ pc = "boot" => TriggerLoadMusicFilesAsync(state, TRUE).track_list = state.track_list

\* Next was pressed while a scan requested on a non-empty catalog is running:
\* it has bound a track of the old catalog.
C29_Witness ==
    /\ last = "next"
    /\ state.is_loading_music
    /\ req.cmds
    /\ req.track \in Range(state.track_list)
    /\ state.sound_initialized
    /\ state.sound.track \in Range(state.track_list)

-----------------------------------------------------------------------------

\* C30: a volume change updates the session volume and, when a sound is
\* bound, that sound's volume, and nothing else: status, CurrentIndex,
\* catalog, sound binding and refresh state are as before.
C30_VolumeChangeOnlyChangesVolume ==
    (pc = "ui" /\ ControlsShown(state))
      => \A v \in Volumes :
            RenderUI(state, "volume", v) =
                [state EXCEPT !.volume = v,
                              !.sound.volume = IF state.sound_initialized THEN v ELSE @]

\* The slider was lowered while a track was paused: it is still paused, at
\* the new volume.
C30_Witness ==
    /\ last = "volume"
    /\ state.sound_initialized
    /\ ~state.is_playing
    /\ ~state.sound.started
    /\ state.volume = VolumeMin
    /\ state.sound.volume = VolumeMin

-----------------------------------------------------------------------------
(* ScanMusicDirectoryWorker.  An extension is the sequence of its characters;
   a directory entry carries the path it is listed under, its extension,
   whether it is a regular file, and whether reading it fails. *)

\* Longest directory listing that is enumerated.
MaxEntries == 2

Extensions ==
    { <<".", "m", "p", "3">>, <<".", "M", "p", "3">>,
      <<".", "w", "a", "v">>, <<".", "W", "A", "V">>,
      <<".", "t", "x", "t">> }

\* ::tolower on the characters that occur in Extensions.
tolower(c) ==
    CASE c = "M" -> "m"
      [] c = "P" -> "p"
      [] c = "W" -> "w"
      [] c = "A" -> "a"
      [] c = "V" -> "v"
      [] OTHER   -> c

\* std::transform(extension.begin(), extension.end(), extension.begin(), ::tolower)
transform(extension) == [i \in 1..Len(extension) |-> tolower(extension[i])]

\* Variant: the extension is compared as it is spelt.
PlayableExtension_CaseSensitive(extension) ==
    extension = <<".", "m", "p", "3">> \/ extension = <<".", "w", "a", "v">>

\* extension == ".mp3" || extension == ".wav", after the transform.
PlayableExtension(extension) ==
    LET lowered == transform(extension)
    IN  lowered = <<".", "m", "p", "3">> \/ lowered = <<".", "w", "a", "v">>

DirectoryEntries ==
    [path : Tracks, extension : Extensions, regular : BOOLEAN, fault : BOOLEAN]

\* Listings of at most MaxEntries entries, no path listed twice.
RECURSIVE Listings(_, _)
Listings(paths, n) ==
    IF n = 0 \/ paths = {} THEN {<<>>}
    ELSE {<<>>} \cup
         UNION {{<<e>> \o rest : rest \in Listings(paths \ {e.path}, n - 1)} :
                e \in {d \in DirectoryEntries : d.path \in paths}}

(* What ./music/ is when the worker runs:
     present         exists() is true
     absent_created  exists() is false, create_directories() creates it
     appeared        exists() is false, create_directories() returns false:
                     the directory came into being in between
     create_error    exists() is false, create_directories() throws
     unreadable      exists() is true, directory_iterator's constructor throws
     status_error    exists() itself throws                                   *)
Directories ==
    {[status |-> st, entries |-> l] :
        st \in {"present", "appeared", "unreadable"},
        l \in Listings(Tracks, MaxEntries)}
      \cup {[status |-> st, entries |-> <<>>] :
              st \in {"absent_created", "create_error", "status_error"}}

\* Variant: an entry that cannot be read is passed over and the loop goes on.
RECURSIVE Enumerate_SkipFaulty(_, _, _)
Enumerate_SkipFaulty(entries, i, found_tracks) ==
    IF i > Len(entries) THEN [result |-> found_tracks, raised |-> FALSE]
    ELSE LET entry == entries[i]
         IN  IF entry.fault
             THEN Enumerate_SkipFaulty(entries, i + 1, found_tracks)
             ELSE Enumerate_SkipFaulty(entries, i + 1,
                      IF entry.regular /\ PlayableExtension(entry.extension)
                      THEN Append(found_tracks, entry.path)
                      ELSE found_tracks)

\* The range-for over directory_iterator inside the try block, from entry i
\* on.  A filesystem_error thrown while an entry is read (by the iterator's
\* increment or by is_regular_file()) leaves the loop for the catch clause
\* behind it, and what was pushed so far is returned.
RECURSIVE Enumerate(_, _, _)
Enumerate(entries, i, found_tracks) ==
    IF i > Len(entries) THEN [result |-> found_tracks, raised |-> FALSE]
    ELSE LET entry == entries[i]
         IN  IF entry.fault
             THEN [result |-> found_tracks, raised |-> FALSE]
             ELSE Enumerate(entries, i + 1,
                      IF entry.regular /\ PlayableExtension(entry.extension)
                      THEN Append(found_tracks, entry.path)
                      ELSE found_tracks)

\* The worker's vector, or the exception that leaves it (exists() is called
\* outside every try block).
ScanMusicDirectoryWorker(music_dir_path) ==
    CASE music_dir_path.status = "status_error" -> [result |-> <<>>, raised |-> TRUE]
      [] music_dir_path.status = "create_error" -> [result |-> <<>>, raised |-> FALSE]
      [] music_dir_path.status = "unreadable"   -> [result |-> <<>>, raised |-> FALSE]
      [] OTHER -> Enumerate(music_dir_path.entries, 1, <<>>)

-----------------------------------------------------------------------------
(* The first scan, followed from the directory to the catalog: the session
   starts on any directory, the worker runs on it, the poll applies what the
   worker returned, and the loop idles. *)

InitScan ==
    /\ state = StartUpSequence(PlayerState, "none")
    /\ unloadable = {}
    /\ pc = "boot"
    /\ last = "init"
    /\ tick_log = <<>>
    /\ req = NoReq
    /\ scanner \in {[NoScanner EXCEPT !.dir = d] : d \in Directories}

\* The std::async task runs ScanMusicDirectoryWorker to its end.
ScanWorkerRuns ==
    /\ state.music_load_future.valid
    /\ ~state.music_load_future.ready
    /\ LET out == ScanMusicDirectoryWorker(scanner.dir)
       IN  scanner' = [scanner EXCEPT !.done = TRUE,
                                      !.found_tracks = out.result,
                                      !.raised = out.raised]
    /\ state' = WorkerReturns(state)
    /\ UNCHANGED <<unloadable, pc, last, tick_log, req>>

\* main loop: ProcessAsyncMusicLoadCompletion(playerState); get() yields what
\* the worker left in the future.
PollScanned ==
    /\ pc = "poll"
    /\ state' = ProcessAsyncMusicLoadCompletion(state,
                    IF ScanReady(state)
                    THEN [result |-> scanner.found_tracks, raised |-> scanner.raised]
                    ELSE NoOutcome)
    /\ pc' = "drain"
    /\ last' = IF ScanReady(state) THEN "poll_apply" ELSE "poll_noop"
    /\ tick_log' = <<"poll">>
    /\ UNCHANGED <<unloadable, req, scanner>>

NextScan ==
    \/ Bootstrap
    \/ ScanWorkerRuns
    \/ PollScanned
    \/ DrainAudioEvents
    \/ UIIdle

SpecScan == InitScan /\ [][NextScan]_vars

\* The entry is a regular file whose extension is a spelling of .mp3 or .wav.
Qualifies(entry) ==
    /\ entry.regular
    /\ entry.extension \in { <<".", "m", "p", "3">>, <<".", "M", "p", "3">>,
                             <<".", "w", "a", "v">>, <<".", "W", "A", "V">> }

\* The paths of the qualifying entries of a listing, in listing order.
QualifyingPaths(entries) ==
    LET q == SelectSeq(entries, Qualifies)
    IN  [i \in 1..Len(q) |-> q[i].path]

\* The directory can be enumerated: it exists, was created, or came into being.
Enumerable(dir) == dir.status \in {"present", "absent_created", "appeared"}

\* C31: when enumeration raises no error the scan result is exactly the
\* subsequence, in enumeration order, of the entries that are regular files
\* with extension .mp3 or .wav in any letter case.
C31_ScanIsQualifyingSubsequence ==
    (/\ scanner.done
     /\ Enumerable(scanner.dir)
     /\ \A i \in 1..Len(scanner.dir.entries) : ~scanner.dir.entries[i].fault)
      => /\ ~scanner.raised
         /\ scanner.found_tracks = QualifyingPaths(scanner.dir.entries)

\* A directory named like a track is left out and the upper-case .WAV file
\* listed after it is found.
C31_Witness ==
    /\ scanner.done
    /\ Enumerable(scanner.dir)
    /\ Len(scanner.dir.entries) = 2
    /\ \A i \in 1..2 : ~scanner.dir.entries[i].fault
    /\ ~scanner.dir.entries[1].regular
    /\ scanner.dir.entries[1].extension = <<".", "m", "p", "3">>
    /\ scanner.dir.entries[2].regular
    /\ scanner.dir.entries[2].extension = <<".", "W", "A", "V">>
    /\ scanner.found_tracks = <<scanner.dir.entries[2].path>>

-----------------------------------------------------------------------------

\* C32 (as claimed): an error on one directory entry does not end the scan:
\* the failing entry is skipped and every qualifying entry listed after it is
\* in the result.
C32_FaultyEntryIsSkipped ==
    (/\ scanner.done
     /\ Enumerable(scanner.dir))
      => \A i \in 1..Len(scanner.dir.entries) :
            (/\ scanner.dir.entries[i].fault
             /\ \A k \in 1..Len(scanner.dir.entries) :
                   k # i => ~scanner.dir.entries[k].fault)
              => \A j \in (i + 1)..Len(scanner.dir.entries) :
                    Qualifies(scanner.dir.entries[j])
                      => scanner.dir.entries[j].path \in Range(scanner.found_tracks)

-----------------------------------------------------------------------------

\* The directory cannot be created or cannot be read at all.
HardFailure(dir) == dir.status \in {"create_error", "unreadable", "status_error"}

\* Position of the first entry whose reading fails, Len + 1 when none does.
FirstFault(entries) ==
    IF \E i \in 1..Len(entries) : entries[i].fault
    THEN CHOOSE i \in 1..Len(entries) :
            /\ entries[i].fault
            /\ \A k \in 1..(i - 1) : ~entries[k].fault
    ELSE Len(entries) + 1

-----------------------------------------------------------------------------

\* C34 (as claimed): when the refresh is applied, the track that was playing
\* at the request is in the new catalog and the engine rejects its load, the
\* session is Stopped with no sound bound and CurrentIndex is that track's
\* position in the new catalog.
C34_RejectedReloadStaysSelected ==
    (/\ last = "poll_apply"
     /\ req.playing
     /\ req.track \in Range(state.track_list)
     /\ req.track \in unloadable)
      => /\ ~state.is_playing
         /\ ~state.sound_initialized
         /\ state.current_track_index = find(state.track_list, req.track)

-----------------------------------------------------------------------------

\* C35 (as claimed): whenever a sound is bound it was loaded from the track
\* at CurrentIndex of the current catalog; in particular no sound loaded from
\* the old catalog stays bound across a catalog replacement, whatever
\* commands were issued during the scan.
C35_BoundSoundIsCurrentTrack ==
    state.sound_initialized => state.sound.track = CurrentTrack(state)

-----------------------------------------------------------------------------

\* C36 (as claimed): in every reachable state a bound sound that has been
\* started and has neither been stopped nor reached its end belongs to a
\* session that reports Playing.
C36_StartedSoundIsReportedPlaying ==
    (state.sound_initialized /\ state.sound.started) => state.is_playing

-----------------------------------------------------------------------------
(* The whole run of main: start-up, which may fail at any initialiser, the
   session, and the exit from the loop when the window is closed. *)

InitLife ==
    /\ state = PlayerState
    /\ unloadable \in {{}, {CHOOSE t \in Tracks : TRUE}}
    /\ pc = "start"
    /\ last = "init"
    /\ tick_log = <<>>
    /\ req = NoReq
    /\ scanner = NoScanner

\* main: InitializeGLFW, InitializeGLEW, InitializeImGui, InitializeMiniaudio.
StartUp ==
    /\ pc = "start"
    /\ \E failure \in StartUpFailures :
          /\ state' = StartUpSequence(state, failure)
          /\ pc' = IF failure = "none" THEN "boot" ELSE "done"
          /\ last' = IF failure = "none" THEN "init" ELSE "start_failed"
    /\ UNCHANGED <<unloadable, scanner, tick_log, req>>

\* The loop condition, evaluated before a frame, is false (the window was
\* closed): Cleanup(window, playerState); return 0.
Exit ==
    /\ pc = "poll"
    /\ state' = Cleanup(state)
    /\ pc' = "done"
    /\ last' = "exit"
    /\ UNCHANGED <<unloadable, scanner, tick_log, req>>

NextLife ==
    \/ StartUp
    \/ Next
    \/ Exit

SpecLife == InitLife /\ [][NextLife]_vars

\* C37: after the Cleanup that follows the loop, whatever the session was
\* doing, no sound is bound, no native sound is live, and none was live at
\* the moment the engine was uninitialised.
C37_SoundReleasedBeforeEngine ==
    (pc = "done" /\ last = "exit")
      => /\ ~state.sound_initialized
         /\ state.sound = NoSound
         /\ state.engine_live = 0
         /\ state.orphans = 0
         /\ ~state.engine_init

\* The window was closed while a track was playing.
C37_Witness ==
    /\ pc = "done"
    /\ last = "exit"
    /\ state.is_playing
    /\ ~empty(state.track_list)
    /\ ~state.sound_initialized
    /\ state.engine_live = 0

-----------------------------------------------------------------------------

\* C38 (as claimed): Cleanup shuts down the audio engine and ImGui only if
\* their own initialisation had succeeded earlier in the start-up sequence.
C38_TeardownOnlyOfInitialised == state.torn_uninit = {}

====
